---- MODULE Spec2Model ----
(***************************************************************************)
(* Model of olive/drivers/pi/wrapper.pyx: the Cython binding of the PI     *)
(* GCS2 library.  The wrapper is stateless apart from the identifiers its  *)
(* handles carry; the state below is the state of the native layer the     *)
(* wrapper talks to (open connections, daisy chain ports, background       *)
(* connection attempts, per-axis settings, parameters) together with the   *)
(* record `last` of the wrapper call that has just returned or raised:     *)
(* which native entry points it invoked, with which arguments and returns, *)
(* and what the caller got.  Every operation blocks its caller until the   *)
(* native library returns, so a call is one step; the caller then goes on  *)
(* (Continue) and may make the next call.                                  *)
(***************************************************************************)
EXTENDS Integers, Sequences, FiniteSets, TLC

\* ---------------------------------------------------------------- bounds
MaxCtrl == 2
MaxThread == 1
MaxDaisy == 1
ChainLen == 2
MaxVal == 1
MaxElem == 2

\* default size of the message buffer of translate_error (nbytes=1024)
DefaultNBytes == 1024

CtrlIds == 0 .. MaxCtrl - 1
ThreadIds == 0 .. MaxThread - 1
DaisyIds == 0 .. MaxDaisy - 1
Vals == 0 .. MaxVal
Axes == {"1"}
Descs == {"dev"}
Texts == {"txt"}
ParamIds == {7}
ParamStrings == {"a"}

\* Values the native layer may hand back.
\* negative return codes of the communication functions
CommErrs == {-1, -2}
\* return values of a GCS command (BOOL, with -1 for a broken interface)
CmdRetVals == {-1, 0, 1}
\* codes PI_GetError may report
ErrCodes == {0, 2}
\* returns of PI_TranslateError: 0 = buffer too small, 1 = translated
TransRets == {0, 1}

VARIABLES open, via, chainOpen, thread, closed, reg, spa, sep, last

vars == <<open, via, chainOpen, thread, closed, reg, spa, sep, last>>
connVars == <<open, via, chainOpen, thread, closed>>
storeVars == <<reg, spa, sep>>

\* ------------------------------------------------- records of a wrapper call
\* one invocation of a native entry point and what it returned; id is the
\* identifier (or error code, for PI_TranslateError) passed first, txt a
\* string argument (descriptor, password/command-group prefix), n a size,
\* index or value argument
Call(fn, id, axis, txt, n, ret) ==
  [fn |-> fn, id |-> id, axis |-> axis, txt |-> txt, n |-> n, ret |-> ret]

NoResult == [num |-> {}, flag |-> {}, name |-> "", vals |-> <<>>, str |-> ""]
NumResult(v) == [NoResult EXCEPT !.num = {v}]
FlagResult(b) == [NoResult EXCEPT !.flag = {b}]
TextResult(s) == [NoResult EXCEPT !.str = s]

\* the outcome of a call: op(h, axis, args) invoked `calls`, handed the
\* return codes `routed` to its check_error, then either raised
\* (raised /= "", msg = the codes whose translation is the message) or
\* returned res
Outcome(op, h, axis, args, calls, routed, chk, res) ==
  [op |-> op, h |-> h, axis |-> axis, args |-> args,
   calls |-> calls \o chk.calls, routed |-> routed,
   raised |-> chk.raised, msg |-> chk.msg,
   res |-> IF chk.raised = "" THEN res ELSE NoResult]

Passed == [calls |-> <<>>, raised |-> "", msg |-> {}]

NoCall ==
  [op |-> "", h |-> -1, axis |-> "", args |-> <<>>, calls |-> <<>>,
   routed |-> {}, raised |-> "", msg |-> {}, res |-> NoResult]

\* no call has returned that the caller has not gone on from
Idle == last = NoCall

\* the caller goes on after a call returned or raised
Continue ==
  /\ last /= NoCall
  /\ last' = NoCall
  /\ UNCHANGED <<connVars, storeVars>>

\* ------------------------------------------------------- error translation
\* a translate_error that hands back the buffer without checking the return
translate_error_Unchecked(err_id, nbytes, tret) ==
  [calls |-> <<Call("PI_TranslateError", err_id, "", "", nbytes, tret)>>,
   raised |-> "",
   msg |-> {err_id}]

\* translate_error(err_id, nbytes): tret is what PI_TranslateError returned
translate_error(err_id, nbytes, tret) ==
  [calls |-> <<Call("PI_TranslateError", err_id, "", "", nbytes, tret)>>,
   raised |-> IF tret > 0 THEN "" ELSE "AssertionError",
   msg |-> IF tret > 0 THEN {err_id} ELSE {}]

\* raise RuntimeError(translate_error(code)): the assertion inside
\* translate_error propagates instead of the RuntimeError
RaiseTranslated(t) ==
  [calls |-> t.calls,
   raised |-> IF t.raised = "" THEN "RuntimeError" ELSE t.raised,
   msg |-> t.msg]

\* a check that takes the command convention (0 is failure) for this layer
Communication_check_error_NonPositive(ret, tret) ==
  IF ret <= 0
    THEN RaiseTranslated(translate_error(ret, DefaultNBytes, tret))
    ELSE Passed

Communication_check_error(ret, tret) ==
  IF ret < 0
    THEN RaiseTranslated(translate_error(ret, DefaultNBytes, tret))
    ELSE Passed

\* a check that translates the command's own return value
ControllerCommand_check_error_TranslatesRet(ctrl_id, ret, err, tret) ==
  IF ret > 0
    THEN Passed
    ELSE LET t == translate_error(ret, DefaultNBytes, tret) IN
         LET r == RaiseTranslated(t) IN
         [r EXCEPT !.calls = <<Call("PI_GetError", ctrl_id, "", "", 0, err)>> \o t.calls]

\* ControllerCommand.check_error: err is what PI_GetError(ctrl_id) reports
ControllerCommand_check_error(ctrl_id, ret, err, tret) ==
  IF ret > 0
    THEN Passed
    ELSE LET t == translate_error(err, DefaultNBytes, tret) IN
         LET r == RaiseTranslated(t) IN
         [r EXCEPT !.calls = <<Call("PI_GetError", ctrl_id, "", "", 0, err)>> \o t.calls]

\* ------------------------------------------------------------ native layer
\* identifiers the native layer may hand out for a new connection
FreeCtrl == CtrlIds \ open
FreeThreads == {t \in ThreadIds : thread[t].st = "free"}
\* the connected devices of daisy chain port d
ChainDevices(d) == {c \in open : via[c] = d}

\* a new connection with identifier c, reached through daisy chain port d
\* (-1: a direct connection)
NativeOpened(c, d) ==
  /\ open' = open \cup {c}
  /\ via' = [via EXCEPT ![c] = d]
  /\ closed' = closed \ {c}

\* the connections cs are closed; closed remembers the identifiers that
\* were connected and are no more
NativeClosed(cs) ==
  /\ open' = open \ cs
  /\ closed' = closed \cup (cs \cap open)
  /\ UNCHANGED via

\* ---------------------------------------------------------- Communication
enumerate_usb(keyword) ==
  /\ \E ret \in CommErrs \cup {0, 1}, text \in Texts, tret \in TransRets :
       last' = Outcome("enumerate_usb", -1, "", <<>>,
                       <<Call("PI_EnumerateUSB", -1, "", keyword, DefaultNBytes, ret)>>,
                       {ret}, Communication_check_error(ret, tret), TextResult(text))
  /\ UNCHANGED <<connVars, storeVars>>

ConnectEntry(baudrate) ==
  IF baudrate < 0 THEN "PI_ConnectUSB" ELSE "PI_ConnectUSBWithBaudRate"

connect_usb(desc, baudrate) ==
  \E ret \in CommErrs \cup FreeCtrl, tret \in TransRets :
    /\ last' = Outcome("connect_usb", -1, "", <<baudrate>>,
                       <<Call(ConnectEntry(baudrate), -1, "", desc, baudrate, ret)>>,
                       {ret}, Communication_check_error(ret, tret), NumResult(ret))
    /\ IF ret >= 0
         THEN NativeOpened(ret, -1)
         ELSE UNCHANGED <<open, via, closed>>
    /\ UNCHANGED <<chainOpen, thread, storeVars>>

try_connect_usb(desc) ==
  \E ret \in CommErrs \cup FreeThreads, tret \in TransRets :
    /\ last' = Outcome("try_connect_usb", -1, "", <<>>,
                       <<Call("PI_TryConnectUSB", -1, "", desc, 0, ret)>>,
                       {ret}, Communication_check_error(ret, tret), NumResult(ret))
    /\ thread' = IF ret >= 0
                   THEN [thread EXCEPT ![ret] = [st |-> "connecting", id |-> -1]]
                   ELSE thread
    /\ UNCHANGED <<open, via, chainOpen, closed, storeVars>>

\* the background attempt of thread t ends: connected, or failed
NativeAttempt(t) ==
  /\ thread[t].st = "connecting"
  /\ \/ \E c \in FreeCtrl :
          /\ thread' = [thread EXCEPT ![t] = [st |-> "connected", id |-> c]]
          /\ NativeOpened(c, -1)
     \/ /\ thread' = [thread EXCEPT ![t] = [st |-> "failed", id |-> -1]]
        /\ UNCHANGED <<open, via, closed>>
  /\ UNCHANGED <<chainOpen, storeVars, last>>

\* what PI_IsConnecting returns for a thread identifier, and the status it writes
NativeIsConnecting(t) ==
  IF t \in ThreadIds /\ thread[t].st /= "free"
    THEN {[ret |-> r, status |-> IF thread[t].st = "connecting" THEN 1 ELSE 0] :
            r \in {0, 1}}
    ELSE {[ret |-> r, status |-> s] : r \in CommErrs, s \in {0, 1}}

\* a poll that takes status 0 for "still connecting"
IsConnectingResult_NonNegative(status) == status >= 0

\* return status > 0
IsConnectingResult(status) == status > 0

is_connecting(thread_id) ==
  /\ \E n \in NativeIsConnecting(thread_id), tret \in TransRets :
       last' = Outcome("is_connecting", thread_id, "", <<>>,
                       <<Call("PI_IsConnecting", thread_id, "", "", 0, n.ret)>>,
                       {n.ret}, Communication_check_error(n.ret, tret),
                       FlagResult(IsConnectingResult(n.status)))
  /\ UNCHANGED <<connVars, storeVars>>

\* what PI_GetControllerID returns for a thread identifier
NativeGetControllerID(t) ==
  IF t \in ThreadIds /\ thread[t].st = "connected"
    THEN {thread[t].id}
    ELSE CommErrs

\* ret = PI_GetControllerID(thread_id); check_error(ret); return ret
GetControllerIdOutcome(thread_id, ret, tret) ==
  Outcome("get_controller_id", thread_id, "", <<>>,
          <<Call("PI_GetControllerID", thread_id, "", "", 0, ret)>>,
          {ret}, Communication_check_error(ret, tret), NumResult(ret))

get_controller_id(thread_id) ==
  /\ \E ret \in NativeGetControllerID(thread_id), tret \in TransRets :
       last' = GetControllerIdOutcome(thread_id, ret, tret)
  /\ UNCHANGED <<connVars, storeVars>>

\* what PI_IsConnected returns for a controller identifier
NativeIsConnected(c) == IF c \in open THEN {1} ELSE {0, -1}

\* a query that takes return 0 for "connected"
IsConnectedResult_NonNegative(ret) == ret >= 0

\* return ret > 0
IsConnectedResult(ret) == ret > 0

\* what is_connected(ctrl_id) can return in the current state
IsConnectedOutcomes(ctrl_id) ==
  {Outcome("is_connected", ctrl_id, "", <<>>,
           <<Call("PI_IsConnected", ctrl_id, "", "", 0, ret)>>,
           {}, Passed, FlagResult(IsConnectedResult(ret))) :
     ret \in NativeIsConnected(ctrl_id)}

is_connected(ctrl_id) ==
  /\ last' \in IsConnectedOutcomes(ctrl_id)
  /\ UNCHANGED <<connVars, storeVars>>

set_daisy_chain_scan_max_device_id(max_id) ==
  /\ \E ret \in CommErrs \cup {0, 1}, tret \in TransRets :
       last' = Outcome("set_daisy_chain_scan_max_device_id", -1, "", <<max_id>>,
                       <<Call("PI_SetDaisyChainScanMaxDeviceID", -1, "", "", max_id, ret)>>,
                       {ret}, Communication_check_error(ret, tret), NoResult)
  /\ UNCHANGED <<connVars, storeVars>>

open_usb_daisy_chain(desc) ==
  \E ret \in CommErrs \cup (DaisyIds \ chainOpen), text \in Texts, tret \in TransRets :
    /\ last' = Outcome("open_usb_daisy_chain", -1, "", <<>>,
                       <<Call("PI_OpenUSBDaisyChain", -1, "", desc, DefaultNBytes, ret)>>,
                       {ret}, Communication_check_error(ret, tret),
                       [NoResult EXCEPT !.num = {ret}, !.vals = <<ChainLen>>, !.str = text])
    /\ chainOpen' = IF ret >= 0 THEN chainOpen \cup {ret} ELSE chainOpen
    /\ UNCHANGED <<open, via, thread, closed, storeVars>>

\* what PI_ConnectDaisyChainDevice returns: a new controller identifier only
\* for a device of an open port
NativeConnectDaisyChainDevice(d, index) ==
  IF d \in chainOpen /\ index \in 1 .. ChainLen
    THEN CommErrs \cup FreeCtrl
    ELSE CommErrs

connect_daisy_chain_device(daisy_id, index) ==
  \E ret \in NativeConnectDaisyChainDevice(daisy_id, index), tret \in TransRets :
    /\ last' = Outcome("connect_daisy_chain_device", daisy_id, "", <<index>>,
                       <<Call("PI_ConnectDaisyChainDevice", daisy_id, "", "", index, ret)>>,
                       {ret}, Communication_check_error(ret, tret), NumResult(ret))
    /\ IF ret >= 0
         THEN NativeOpened(ret, daisy_id)
         ELSE UNCHANGED <<open, via, closed>>
    /\ UNCHANGED <<chainOpen, thread, storeVars>>

close_daisy_chain(daisy_id) ==
  LET call == Call("PI_CloseDaisyChain", daisy_id, "", "", 0, 0) IN
  /\ last' = Outcome("close_daisy_chain", daisy_id, "", <<>>, <<call>>,
                     {}, Passed, NoResult)
  /\ NativeClosed(ChainDevices(call.id))
  /\ chainOpen' = chainOpen \ {call.id}
  /\ UNCHANGED <<thread, storeVars>>

close_connection(ctrl_id) ==
  LET call == Call("PI_CloseConnection", ctrl_id, "", "", 0, 0) IN
  /\ last' = Outcome("close_connection", ctrl_id, "", <<>>, <<call>>,
                     {}, Passed, NoResult)
  /\ NativeClosed({call.id})
  /\ UNCHANGED <<chainOpen, thread, storeVars>>

\* ------------------------------------------------------ ControllerCommand
\* what a GCS command may return for controller identifier c: success needs
\* an open connection
NativeCmdRets(c) ==
  IF c \in open THEN CmdRetVals ELSE {r \in CmdRetVals : r <= 0}

\* ret = fn(ctrl_id, ...); self.check_error(ret); return res
\* the outcomes of such an operation in the current state
CheckedOutcomes(op, fn, h, axis, args, txt, n, res) ==
  {Outcome(op, h, axis, args, <<Call(fn, h, axis, txt, n, ret)>>, {ret},
           ControllerCommand_check_error(h, ret, err, tret), res) :
     ret \in NativeCmdRets(h), err \in ErrCodes, tret \in TransRets}

\* ret = fn(ctrl_id, ..., &status); self.check_error(ret); return status > 0
CheckedStatus(op, fn, h, axis, txt) ==
  \E status \in {0, 1} :
    last' \in CheckedOutcomes(op, fn, h, axis, <<>>, txt, 0, FlagResult(status > 0))

\* ret = fn(ctrl_id, ..., c_buffer, nbytes); self.check_error(ret); return text
CheckedText(op, fn, h, axis, nbytes) ==
  \E text \in Texts :
    last' \in CheckedOutcomes(op, fn, h, axis, <<>>, "", nbytes, TextResult(text))

set_error_check(h, err_check) ==
  /\ last' = Outcome("set_error_check", h, "", <<>>,
                     <<Call("PI_SetErrorCheck", h, "", "", IF err_check THEN 1 ELSE 0, 1)>>,
                     {}, Passed, NoResult)
  /\ UNCHANGED <<connVars, storeVars>>

is_moving(h, axes) ==
  /\ CheckedStatus("is_moving", "PI_IsMoving", h, "", axes)
  /\ UNCHANGED <<connVars, storeVars>>

is_controller_ready(h) ==
  /\ CheckedStatus("is_controller_ready", "PI_IsControllerReady", h, "", "")
  /\ UNCHANGED <<connVars, storeVars>>

is_running_macro(h) ==
  /\ CheckedStatus("is_running_macro", "PI_IsRunningMacro", h, "", "")
  /\ UNCHANGED <<connVars, storeVars>>

\* the two stubs: `pass`
get_axes_enable_status(h, axes) ==
  /\ last' = Outcome("get_axes_enable_status", h, "", <<>>, <<>>, {}, Passed, NoResult)
  /\ UNCHANGED <<connVars, storeVars>>

set_axes_enable_status(h, axes, state) ==
  /\ last' = Outcome("set_axes_enable_status", h, "", <<>>, <<>>, {}, Passed, NoResult)
  /\ UNCHANGED <<connVars, storeVars>>

AxesIdEntry(include_deactivated) ==
  IF include_deactivated THEN "PI_qSAI_ALL" ELSE "PI_qSAI"

get_axes_id(h, include_deactivated) ==
  /\ CheckedText("get_axes_id", AxesIdEntry(include_deactivated), h, "", 512)
  /\ UNCHANGED <<connVars, storeVars>>

stop_all(h) ==
  /\ last' \in CheckedOutcomes("stop_all", "PI_StopAll", h, "", <<>>, "", 0, NoResult)
  /\ UNCHANGED <<connVars, storeVars>>

get_available_commands(h) ==
  /\ CheckedText("get_available_commands", "PI_qHLP", h, "", 512)
  /\ UNCHANGED <<connVars, storeVars>>

get_identification_string(h) ==
  /\ CheckedText("get_identification_string", "PI_qIDN", h, "", 256)
  /\ UNCHANGED <<connVars, storeVars>>

get_available_parameters(h) ==
  /\ CheckedText("get_available_parameters", "PI_qHPA", h, "", 512)
  /\ UNCHANGED <<connVars, storeVars>>

get_valid_character_set(h) ==
  /\ CheckedText("get_valid_character_set", "PI_qTVI", h, "", 512)
  /\ UNCHANGED <<connVars, storeVars>>

get_version(h) ==
  /\ CheckedText("get_version", "PI_qVER", h, "", 512)
  /\ UNCHANGED <<connVars, storeVars>>

\* ------------------------------------------------------------- AxisCommand
\* the enumerations: member name <-> native integer
ReferenceModeNames == {"Absolute", "Relative"}
ReferenceModeValue(name) == IF name = "Absolute" THEN 1 ELSE 0
\* ReferenceMode(mode): the member with that value ("" when there is none,
\* where the constructor raises ValueError)
ReferenceMode(mode) ==
  CASE mode = 1 -> "Absolute"
    [] mode = 0 -> "Relative"
    [] OTHER -> ""
ServoStateNames == {"OpenLoop", "ClosedLoop"}
ServoStateValue(name) == IF name = "ClosedLoop" THEN 1 ELSE 0
ReferenceStrategies == {"ReferenceSwitch", "NegativeLimit", "PositiveLimit"}

\* the settings the native layer keeps per controller and axis
RegNames == {"RON", "SVO", "VEL", "ACC", "POS"}
NativeRead(h, axis, r) == reg[<<h, axis>>][r]
NativeWrite(call, r) == [reg EXCEPT ![<<call.id, call.axis>>][r] = call.n]

\* ret = fn(ctrl_id, axis, &value); self.check_error(ret): the native layer
\* stores the value it is handed when it reports success
SetRegister(op, fn, r, h, axis, v) ==
  \E o \in CheckedOutcomes(op, fn, h, axis, <<v>>, "", v, NoResult) :
    /\ last' = o
    /\ reg' = IF o.calls[1].ret > 0 THEN NativeWrite(o.calls[1], r) ELSE reg

\* ret = fn(ctrl_id, axis, &value); self.check_error(ret); return value
GetRegisterOutcomes(op, fn, r, h, axis) ==
  CheckedOutcomes(op, fn, h, axis, <<>>, "", 0, NumResult(NativeRead(h, axis, r)))

\* PI_qRON, then ReferenceMode(mode)
GetReferenceModeOutcomes(h, axis) ==
  LET mode == NativeRead(h, axis, "RON") IN
  {IF o.raised = "" /\ ReferenceMode(mode) = ""
     THEN [o EXCEPT !.raised = "ValueError"]
     ELSE o :
   o \in CheckedOutcomes("get_reference_mode", "PI_qRON", h, axis, <<>>, "", 0,
                         [NoResult EXCEPT !.name = ReferenceMode(mode)])}

get_reference_mode(h, axis) ==
  /\ last' \in GetReferenceModeOutcomes(h, axis)
  /\ UNCHANGED <<connVars, storeVars>>

set_reference_mode(h, axis, mode) ==
  /\ SetRegister("set_reference_mode", "PI_RON", "RON", h, axis, mode)
  /\ UNCHANGED <<connVars, spa, sep>>

is_referenced(h, axis) ==
  /\ CheckedStatus("is_referenced", "PI_qFRF", h, axis, "")
  /\ UNCHANGED <<connVars, storeVars>>

\* a dispatch whose else branch falls back to the default strategy
ReferenceEntry_DefaultsToSwitch(strategy) ==
  CASE strategy = "NegativeLimit" -> "PI_FNL"
    [] strategy = "PositiveLimit" -> "PI_FPL"
    [] OTHER -> "PI_FRF"

\* the native entry point a strategy selects ("" for the else branch)
ReferenceEntry(strategy) ==
  CASE strategy = "ReferenceSwitch" -> "PI_FRF"
    [] strategy = "NegativeLimit" -> "PI_FNL"
    [] strategy = "PositiveLimit" -> "PI_FPL"
    [] OTHER -> ""

start_reference_movement(h, axis, strategy) ==
  /\ LET fn == ReferenceEntry(strategy) IN
     IF fn /= ""
       THEN last' \in CheckedOutcomes("start_reference_movement", fn, h, axis,
                                      <<strategy>>, "", 0, NoResult)
       ELSE \E err \in ErrCodes, tret \in TransRets :
              \* else: ret = 0
              last' = Outcome("start_reference_movement", h, axis, <<strategy>>,
                              <<>>, {0},
                              ControllerCommand_check_error(h, 0, err, tret),
                              NoResult)
  /\ UNCHANGED <<connVars, storeVars>>

go_to_home(h, axis) ==
  /\ last' \in CheckedOutcomes("go_to_home", "PI_GOH", h, axis, <<>>, "", 0, NoResult)
  /\ UNCHANGED <<connVars, storeVars>>

halt(h, axis) ==
  /\ last' \in CheckedOutcomes("halt", "PI_HLT", h, axis, <<>>, "", 0, NoResult)
  /\ UNCHANGED <<connVars, storeVars>>

get_current_position(h, axis) ==
  /\ last' \in GetRegisterOutcomes("get_current_position", "PI_qPOS", "POS", h, axis)
  /\ UNCHANGED <<connVars, storeVars>>

set_current_position(h, axis, value) ==
  /\ SetRegister("set_current_position", "PI_POS", "POS", h, axis, value)
  /\ UNCHANGED <<connVars, spa, sep>>

set_target_position(h, axis, value) ==
  /\ last' \in CheckedOutcomes("set_target_position", "PI_MOV", h, axis,
                               <<value>>, "", value, NoResult)
  /\ UNCHANGED <<connVars, storeVars>>

set_relative_target_position(h, axis, value) ==
  /\ last' \in CheckedOutcomes("set_relative_target_position", "PI_MVR", h, axis,
                               <<value>>, "", value, NoResult)
  /\ UNCHANGED <<connVars, storeVars>>

get_velocity(h, axis) ==
  /\ last' \in GetRegisterOutcomes("get_velocity", "PI_qVEL", "VEL", h, axis)
  /\ UNCHANGED <<connVars, storeVars>>

set_velocity(h, axis, vel) ==
  /\ SetRegister("set_velocity", "PI_VEL", "VEL", h, axis, vel)
  /\ UNCHANGED <<connVars, spa, sep>>

get_acceleration(h, axis) ==
  /\ last' \in GetRegisterOutcomes("get_acceleration", "PI_qACC", "ACC", h, axis)
  /\ UNCHANGED <<connVars, storeVars>>

set_acceleration(h, axis, acc) ==
  /\ SetRegister("set_acceleration", "PI_ACC", "ACC", h, axis, acc)
  /\ UNCHANGED <<connVars, spa, sep>>

get_travel_range_min(h, axis) ==
  /\ \E value \in Vals :
       last' \in CheckedOutcomes("get_travel_range_min", "PI_qTMN", h, axis,
                                 <<>>, "", 0, NumResult(value))
  /\ UNCHANGED <<connVars, storeVars>>

get_travel_range_max(h, axis) ==
  /\ \E value \in Vals :
       last' \in CheckedOutcomes("get_travel_range_max", "PI_qTMX", h, axis,
                                 <<>>, "", 0, NumResult(value))
  /\ UNCHANGED <<connVars, storeVars>>

get_stage_type(h, axis) ==
  /\ CheckedText("get_stage_type", "PI_qCST", h, axis, 512)
  /\ UNCHANGED <<connVars, storeVars>>

set_servo_state(h, axis, state) ==
  /\ SetRegister("set_servo_state", "PI_SVO", "SVO", h, axis, state)
  /\ UNCHANGED <<connVars, spa, sep>>

\* AxisCommand defines no get_servo_state (no PI_qSVO call anywhere): the
\* attribute lookup fails before any native entry point is reached
GetServoStateOutcomes(h, axis) ==
  {Outcome("get_servo_state", h, axis, <<>>, <<>>, {},
           [Passed EXCEPT !.raised = "AttributeError"], NoResult)}

get_servo_state(h, axis) ==
  /\ last' \in GetServoStateOutcomes(h, axis)
  /\ UNCHANGED <<connVars, storeVars>>

\* ---------------------------------------------------------------- parameters
RECURSIVE ValueArrays(_)
\* the arrays of n doubles
ValueArrays(n) ==
  IF n = 0 THEN {<<>>}
  ELSE {Append(s, v) : s \in ValueArrays(n - 1), v \in Vals}

ParamValues == UNION {ValueArrays(n) : n \in 1 .. MaxElem}
Unset == [vals |-> <<>>, str |-> ""]

\* a read that passes the command-group prefix as the persisted write does
ParamReadCall_WithPrefix(h, axis, parameter, volatile, ret) ==
  IF volatile
    THEN Call("PI_qSPA", h, axis, "", parameter, ret)
    ELSE Call("PI_qSEP", h, axis, "100", parameter, ret)

\* the native read get_parameter issues: runtime or EEPROM-backed
ParamReadCall(h, axis, parameter, volatile, ret) ==
  IF volatile
    THEN Call("PI_qSPA", h, axis, "", parameter, ret)
    ELSE Call("PI_qSEP", h, axis, "", parameter, ret)

\* a write with the branches of the volatility test swapped
ParamWriteCall_Swapped(h, axis, parameter, volatile, ret) ==
  IF volatile
    THEN Call("PI_SEP", h, axis, "100", parameter, ret)
    ELSE Call("PI_SPA", h, axis, "", parameter, ret)

\* the native write set_parameter issues: the persisted write takes the
\* command-group prefix "100"
ParamWriteCall(h, axis, parameter, volatile, ret) ==
  IF volatile
    THEN Call("PI_SPA", h, axis, "", parameter, ret)
    ELSE Call("PI_SEP", h, axis, "100", parameter, ret)

\* the store an entry point works on
NativeParamStore(fn) == IF fn \in {"PI_SPA", "PI_qSPA"} THEN spa ELSE sep

\* what a native read leaves in the caller's array of nelem doubles: the
\* stored values, the rest of the array never written; a stored array longer
\* than the caller's overruns it
NativeParamRead(stored, nelem) ==
  IF Len(stored) > nelem
    THEN ValueArrays(nelem)
    ELSE {s \in ValueArrays(nelem) : \A i \in 1 .. Len(stored) : s[i] = stored[i]}

\* what get_parameter can return in the current state
GetParameterOutcomes(h, axis, parameter, volatile, nelem) ==
  UNION {
    LET call == ParamReadCall(h, axis, parameter, volatile, ret)
        stored == NativeParamStore(call.fn)[<<call.id, call.axis, call.n>>]
    IN  {Outcome("get_parameter", h, axis, <<parameter, volatile, nelem>>,
                 <<call>>, {ret},
                 ControllerCommand_check_error(h, ret, err, tret),
                 [NoResult EXCEPT !.vals = values, !.str = stored.str]) :
           values \in NativeParamRead(stored.vals, nelem)} :
    ret \in NativeCmdRets(h), err \in ErrCodes, tret \in TransRets}

get_parameter(h, axis, parameter, volatile, nelem) ==
  /\ last' \in GetParameterOutcomes(h, axis, parameter, volatile, nelem)
  /\ UNCHANGED <<connVars, storeVars>>

set_parameter(h, axis, parameter, values, string, volatile) ==
  /\ \E ret \in NativeCmdRets(h), err \in ErrCodes, tret \in TransRets :
       LET call == ParamWriteCall(h, axis, parameter, volatile, ret)
           key == <<call.id, call.axis, call.n>>
           entry == [vals |-> values, str |-> string]
       IN  /\ last' = Outcome("set_parameter", h, axis,
                              <<parameter, volatile, values, string>>,
                              <<call>>, {ret},
                              ControllerCommand_check_error(h, ret, err, tret),
                              NoResult)
           /\ spa' = IF ret > 0 /\ call.fn = "PI_SPA"
                       THEN [spa EXCEPT ![key] = entry] ELSE spa
           /\ sep' = IF ret > 0 /\ call.fn = "PI_SEP"
                       THEN [sep EXCEPT ![key] = entry] ELSE sep
  /\ UNCHANGED <<connVars, reg>>

\* ------------------------------------------------------------ specifications
\* nothing connected, nothing written, no call made yet
Init ==
  /\ open = {}
  /\ via = [c \in CtrlIds |-> -1]
  /\ chainOpen = {}
  /\ thread = [t \in ThreadIds |-> [st |-> "free", id |-> -1]]
  /\ closed = {}
  /\ reg = [k \in CtrlIds \X Axes |-> [r \in RegNames |-> 0]]
  /\ spa = [k \in CtrlIds \X Axes \X ParamIds |-> Unset]
  /\ sep = [k \in CtrlIds \X Axes \X ParamIds |-> Unset]
  /\ last = NoCall

\* the state a first successful connect_usb leaves: controller 0 connected
InitConnected ==
  /\ open = {0}
  /\ via = [c \in CtrlIds |-> -1]
  /\ chainOpen = {}
  /\ thread = [t \in ThreadIds |-> [st |-> "free", id |-> -1]]
  /\ closed = {}
  /\ reg = [k \in CtrlIds \X Axes |-> [r \in RegNames |-> 0]]
  /\ spa = [k \in CtrlIds \X Axes \X ParamIds |-> Unset]
  /\ sep = [k \in CtrlIds \X Axes \X ParamIds |-> Unset]
  /\ last = NoCall

AsyncOp ==
  /\ Idle
  /\ \/ \E desc \in Descs : try_connect_usb(desc)
     \/ \E t \in ThreadIds : is_connecting(t)
     \/ \E t \in ThreadIds : get_controller_id(t)

CommunicationOp ==
  /\ Idle
  /\ \/ \E keyword \in {"", "nomatch"} : enumerate_usb(keyword)
     \/ \E desc \in Descs, baudrate \in {-1, 9600} : connect_usb(desc, baudrate)
     \/ \E c \in CtrlIds : is_connected(c)
     \/ \E max_id \in {16} : set_daisy_chain_scan_max_device_id(max_id)
     \/ \E desc \in Descs : open_usb_daisy_chain(desc)
     \/ \E d \in DaisyIds, index \in 0 .. ChainLen : connect_daisy_chain_device(d, index)
     \/ \E d \in DaisyIds : close_daisy_chain(d)
     \/ \E c \in CtrlIds : close_connection(c)

ControllerOp ==
  /\ Idle
  /\ \/ \E h \in CtrlIds, b \in BOOLEAN : set_error_check(h, b)
     \/ \E h \in CtrlIds, axes \in {""} \cup Axes : is_moving(h, axes)
     \/ \E h \in CtrlIds : is_controller_ready(h)
     \/ \E h \in CtrlIds : is_running_macro(h)
     \/ \E h \in CtrlIds, axes \in Axes : get_axes_enable_status(h, axes)
     \/ \E h \in CtrlIds, axes \in Axes, b \in BOOLEAN : set_axes_enable_status(h, axes, b)
     \/ \E h \in CtrlIds, b \in BOOLEAN : get_axes_id(h, b)
     \/ \E h \in CtrlIds : stop_all(h)
     \/ \E h \in CtrlIds : get_available_commands(h)
     \/ \E h \in CtrlIds : get_identification_string(h)
     \/ \E h \in CtrlIds : get_available_parameters(h)
     \/ \E h \in CtrlIds : get_valid_character_set(h)
     \/ \E h \in CtrlIds : get_version(h)

AxisOp ==
  /\ Idle
  /\ \/ \E h \in CtrlIds, a \in Axes : get_reference_mode(h, a)
     \/ \E h \in CtrlIds, a \in Axes, m \in ReferenceModeNames :
          set_reference_mode(h, a, ReferenceModeValue(m))
     \/ \E h \in CtrlIds, a \in Axes : is_referenced(h, a)
     \/ \E h \in CtrlIds, a \in Axes, s \in ReferenceStrategies \cup {"Unrecognized"} :
          start_reference_movement(h, a, s)
     \/ \E h \in CtrlIds, a \in Axes : go_to_home(h, a)
     \/ \E h \in CtrlIds, a \in Axes : halt(h, a)
     \/ \E h \in CtrlIds, a \in Axes : get_current_position(h, a)
     \/ \E h \in CtrlIds, a \in Axes, v \in Vals : set_current_position(h, a, v)
     \/ \E h \in CtrlIds, a \in Axes, v \in Vals : set_target_position(h, a, v)
     \/ \E h \in CtrlIds, a \in Axes, v \in Vals : set_relative_target_position(h, a, v)
     \/ \E h \in CtrlIds, a \in Axes : get_velocity(h, a)
     \/ \E h \in CtrlIds, a \in Axes, v \in Vals : set_velocity(h, a, v)
     \/ \E h \in CtrlIds, a \in Axes : get_acceleration(h, a)
     \/ \E h \in CtrlIds, a \in Axes, v \in Vals : set_acceleration(h, a, v)
     \/ \E h \in CtrlIds, a \in Axes : get_travel_range_min(h, a)
     \/ \E h \in CtrlIds, a \in Axes : get_travel_range_max(h, a)
     \/ \E h \in CtrlIds, a \in Axes : get_stage_type(h, a)
     \/ \E h \in CtrlIds, a \in Axes, s \in ServoStateNames :
          set_servo_state(h, a, ServoStateValue(s))
     \/ \E h \in CtrlIds, a \in Axes : get_servo_state(h, a)

ParameterOp ==
  /\ Idle
  /\ \/ \E h \in CtrlIds, a \in Axes, p \in ParamIds, vol \in BOOLEAN, nelem \in 1 .. MaxElem :
          get_parameter(h, a, p, vol, nelem)
     \/ \E h \in CtrlIds, a \in Axes, p \in ParamIds, values \in ParamValues,
           string \in ParamStrings, vol \in BOOLEAN :
          set_parameter(h, a, p, values, string, vol)

NativeStep == \E t \in ThreadIds : NativeAttempt(t)

\* a controller command handle used while connections come and go
HandleOp ==
  /\ Idle
  /\ \E h \in CtrlIds : stop_all(h)

\* the connection lifecycle
Next == CommunicationOp \/ AsyncOp \/ NativeStep \/ HandleOp \/ Continue
Spec == Init /\ [][Next]_vars

\* the command handles of a connected controller
NextCmd == ControllerOp \/ AxisOp \/ Continue
CmdSpec == InitConnected /\ [][NextCmd]_vars

\* the parameter operations of a connected controller
NextParam == ParameterOp \/ Continue
ParamSpec == InitConnected /\ [][NextParam]_vars

\* asynchronous connection: the caller keeps going on and keeps polling, the
\* native background attempt ends
NextAsync ==
  \/ AsyncOp
  \/ NativeStep
  \/ Idle /\ (\E c \in CtrlIds : is_connected(c))
  \/ Idle /\ (\E c \in CtrlIds : close_connection(c))
  \/ Continue
FairSpec ==
  /\ Init
  /\ [][NextAsync]_vars
  /\ WF_vars(Continue)
  /\ \A t \in ThreadIds : WF_vars(NativeAttempt(t))
  /\ \A t \in ThreadIds : SF_vars(Idle /\ is_connecting(t))

\* ------------------------------------------------------------------ claims
\* the positions in o.calls of the calls to the entry points fns
CallsTo(o, fns) == {i \in DOMAIN o.calls : o.calls[i].fn \in fns}
Raised(o) == o.raised /= ""

CommunicationOps ==
  {"enumerate_usb", "connect_usb", "try_connect_usb", "is_connecting",
   "get_controller_id", "is_connected", "set_daisy_chain_scan_max_device_id",
   "open_usb_daisy_chain", "connect_daisy_chain_device", "close_daisy_chain",
   "close_connection"}
NeverRaisingOps == {"is_connected", "close_daisy_chain", "close_connection"}
IdReturningOps ==
  {"connect_usb", "try_connect_usb", "get_controller_id", "connect_daisy_chain_device"}
\* the handle operations that end in self.check_error(ret)
CheckedHandleOps ==
  {"is_moving", "is_controller_ready", "is_running_macro", "get_axes_id",
   "stop_all", "get_available_commands", "get_identification_string",
   "get_available_parameters", "get_valid_character_set", "get_version",
   "get_reference_mode", "set_reference_mode", "is_referenced",
   "start_reference_movement", "go_to_home", "halt", "get_current_position",
   "set_current_position", "set_target_position", "set_relative_target_position",
   "get_velocity", "set_velocity", "get_acceleration", "set_acceleration",
   "get_travel_range_min", "get_travel_range_max", "get_stage_type",
   "get_parameter", "set_parameter", "set_servo_state"}

\* C1: a handle operation that routes its return code through check_error
\* raises iff that code is not positive; when it raises, it has queried
\* PI_GetError exactly once, for its own controller identifier, the code
\* handed to the translator is the queried one, and the RuntimeError carries
\* the translation of the queried code; when the code is positive there is
\* no last-error query and no translation.
C1_TwoStepErrorProtocol ==
  last.op \in CheckedHandleOps =>
    LET q == CallsTo(last, {"PI_GetError"})
        t == CallsTo(last, {"PI_TranslateError"})
    IN  /\ Cardinality(last.routed) = 1
        /\ \A ret \in last.routed :
             /\ Raised(last) <=> ret <= 0
             /\ ret <= 0 =>
                  /\ Cardinality(q) = 1
                  /\ Cardinality(t) = 1
                  /\ \A i \in q, j \in t :
                       /\ i < j
                       /\ last.calls[i].id = last.h
                       /\ last.calls[j].id = last.calls[i].ret
                       /\ last.calls[j].ret > 0 =>
                            /\ last.raised = "RuntimeError"
                            /\ last.msg = {last.calls[i].ret}
             /\ ret > 0 => q = {} /\ t = {}

C1_Witness ==
  /\ last.op = "stop_all"
  /\ last.routed = {-1}
  /\ last.raised = "RuntimeError"
  /\ last.msg = {2}

\* C2: a Communication operation raises iff it is neither is_connected nor a
\* close operation and its native return code is negative; the code handed
\* to the translator is that return code and the RuntimeError carries its
\* translation; a code >= 0 is returned unchanged by the operations that
\* return an identifier; is_connected and the close operations never raise
\* and never reach the translator.
C2_CommunicationErrorPolicy ==
  last.op \in CommunicationOps =>
    LET ret == last.calls[1].ret
        t == CallsTo(last, {"PI_TranslateError"})
    IN  /\ Raised(last) <=> (last.op \notin NeverRaisingOps /\ ret < 0)
        /\ Raised(last) =>
             /\ Cardinality(t) = 1
             /\ \A j \in t :
                  /\ last.calls[j].id = ret
                  /\ last.calls[j].ret > 0 =>
                       /\ last.raised = "RuntimeError"
                       /\ last.msg = {ret}
        /\ ~Raised(last) => t = {}
        /\ (last.op \in IdReturningOps /\ ret >= 0) => last.res.num = {ret}

C2_Witness ==
  /\ last.op = "connect_usb"
  /\ last.raised = "RuntimeError"
  /\ last.msg = {-2}

\* what C3 says of the state a call has just returned into
ConnectedUntilClosed ==
  /\ (last.op \in {"connect_usb", "connect_daisy_chain_device"} /\ ~Raised(last)) =>
       \A id \in last.res.num : \A o \in IsConnectedOutcomes(id) : o.res.flag = {TRUE}
  /\ last.op = "close_connection" =>
       \A o \in IsConnectedOutcomes(last.h) : o.res.flag = {FALSE}
  /\ last.op = "close_daisy_chain" =>
       \A c \in CtrlIds : \A o \in IsConnectedOutcomes(c) :
         via[c] = last.h => o.res.flag = {FALSE}

\* C3: when a successful connect_usb or connect_daisy_chain_device returns
\* id, is_connected(id) reports true; when close_connection(id) returns, and
\* for every device of the chain when close_daisy_chain(daisy_id) returns,
\* is_connected reports false.
C3_ConnectedUntilClosed ==
  [][(last' /= last /\ last' /= NoCall) => ConnectedUntilClosed']_vars

C3_Witness ==
  /\ last.op = "close_daisy_chain"
  /\ \E c \in closed : via[c] = last.h

\* a poll of thread t that returned "not connecting" after the attempt ended
PollObservedCompletion(t) ==
  /\ last.op = "is_connecting"
  /\ last.h = t
  /\ ~Raised(last)
  /\ last.res.flag = {FALSE}
  /\ thread[t].st /= "connecting"

\* C4: once try_connect_usb has returned thread identifier t, polling
\* is_connecting(t) eventually observes completion; get_controller_id(t)
\* issues PI_GetControllerID(t) and nothing else that resolves t, and returns
\* exactly what that call reported.
C4_AsyncConnect ==
  /\ \A t \in ThreadIds :
       (last.op = "try_connect_usb" /\ ~Raised(last) /\ last.res.num = {t})
         ~> PollObservedCompletion(t)
  /\ [](last.op = "get_controller_id" =>
          /\ last.calls[1].fn = "PI_GetControllerID"
          /\ last.calls[1].id = last.h
          /\ CallsTo(last, {"PI_GetControllerID", "PI_TranslateError"}) = DOMAIN last.calls
          /\ Cardinality(CallsTo(last, {"PI_GetControllerID"})) = 1
          /\ ~Raised(last) =>
               /\ last.res.num = {last.calls[1].ret}
               /\ thread[last.h].st = "connected"
               /\ last.res.num = {thread[last.h].id})

C4_Witness ==
  /\ last.op = "get_controller_id"
  /\ ~Raised(last)
  /\ thread[last.h].st = "connected"
  /\ last.res.num = {thread[last.h].id}

ReferenceEntries == {"PI_FRF", "PI_FNL", "PI_FPL"}
UnrecognizedStrategy ==
  /\ last.op = "start_reference_movement"
  /\ last.args[1] \notin ReferenceStrategies

\* C5 as claimed: an unrecognized strategy invokes no reference-movement
\* entry point, issues no last-error query and returns without raising.
C5_UnrecognizedIsNoOpSuccess ==
  UnrecognizedStrategy =>
    /\ CallsTo(last, ReferenceEntries) = {}
    /\ CallsTo(last, {"PI_GetError"}) = {}
    /\ ~Raised(last)

\* C5 amended: an unrecognized strategy invokes no reference-movement entry
\* point, but the return code 0 it sets goes through check_error, which
\* issues one last-error query for the handle's controller and raises.
C5_UnrecognizedRaises ==
  UnrecognizedStrategy =>
    /\ CallsTo(last, ReferenceEntries) = {}
    /\ last.routed = {0}
    /\ Cardinality(CallsTo(last, {"PI_GetError"})) = 1
    /\ \A i \in CallsTo(last, {"PI_GetError"}) : last.calls[i].id = last.h
    /\ Raised(last)

C5_Witness ==
  /\ UnrecognizedStrategy
  /\ last.raised = "RuntimeError"
  /\ last.calls[1].fn = "PI_GetError"

\* C6: when PI_TranslateError reports the buffer too small, what is raised
\* is the sizing AssertionError, not the RuntimeError with a translated
\* message, and no text is returned; through either check_error.
C6_SizingErrorIsDistinct ==
  \A j \in CallsTo(last, {"PI_TranslateError"}) :
    IF last.calls[j].ret <= 0
      THEN /\ last.raised = "AssertionError"
           /\ last.msg = {}
           /\ last.res = NoResult
      ELSE last.raised = "RuntimeError"

C6_Witness ==
  /\ last.op = "stop_all"
  /\ last.raised = "AssertionError"
  /\ \E j \in CallsTo(last, {"PI_TranslateError"}) : last.calls[j].ret <= 0

ParamWriteEntries == {"PI_SPA", "PI_SEP"}
ParamReadEntries == {"PI_qSPA", "PI_qSEP"}

\* set_parameter issues exactly one native write, chosen by the flag: the
\* runtime write without prefix, the persisted write with the prefix "100"
OneParameterWrite ==
  last.op = "set_parameter" =>
    /\ Cardinality(CallsTo(last, ParamWriteEntries)) = 1
    /\ CallsTo(last, ParamReadEntries) = {}
    /\ last.calls[1].fn = (IF last.args[2] THEN "PI_SPA" ELSE "PI_SEP")
    /\ last.calls[1].txt = (IF last.args[2] THEN "" ELSE "100")

\* after a successful volatile write, a volatile read of the same axis and
\* parameter into an array of nelem doubles can succeed, and returns the
\* written values and string whenever it does
VolatileRoundTrip(nelem) ==
  (last.op = "set_parameter" /\ ~Raised(last) /\ last.args[2]) =>
    LET outs == GetParameterOutcomes(last.h, last.axis, last.args[1], TRUE, nelem) IN
    /\ \E o \in outs : ~Raised(o)
    /\ \A o \in outs :
         ~Raised(o) => o.res.vals = last.args[3] /\ o.res.str = last.args[4]

\* C7 as claimed: one native write per set_parameter, chosen by the flag;
\* and set_parameter(volatile) followed by get_parameter(volatile) returns
\* the same value array and string.
C7_WriteThenReadAnyCount ==
  /\ OneParameterWrite
  /\ \A nelem \in 1 .. MaxElem : VolatileRoundTrip(nelem)

\* C7 amended: the read returns the same array when it is asked for as many
\* elements as were written.
C7_WriteThenReadSameCount ==
  /\ OneParameterWrite
  /\ last.op = "set_parameter" => VolatileRoundTrip(Len(last.args[3]))

C7_Witness ==
  /\ last.op = "set_parameter"
  /\ ~Raised(last)
  /\ last.args[2]
  /\ Len(last.args[3]) = 2
  /\ spa[<<last.h, last.axis, last.args[1]>>].vals = last.args[3]

\* get_parameter issues exactly one native read, chosen by the flag
OneParameterRead ==
  last.op = "get_parameter" =>
    /\ Cardinality(CallsTo(last, ParamReadEntries)) = 1
    /\ CallsTo(last, ParamWriteEntries) = {}
    /\ last.calls[1].fn = (IF last.args[2] THEN "PI_qSPA" ELSE "PI_qSEP")

\* C8 as claimed: one native read per get_parameter, chosen by the flag, and
\* the EEPROM-backed read is passed the prefix "100".
C8_ReadPassesPrefix ==
  /\ OneParameterRead
  /\ (last.op = "get_parameter" /\ ~last.args[2]) => last.calls[1].txt = "100"

\* C8 amended: one native read per get_parameter, chosen by the flag; no
\* read is passed a prefix; only the persisted write is passed "100".
C8_OnlyWritePassesPrefix ==
  /\ OneParameterRead
  /\ last.op = "get_parameter" => last.calls[1].txt = ""
  /\ (last.op = "set_parameter" /\ ~last.args[2]) =>
       last.calls[1].fn = "PI_SEP" /\ last.calls[1].txt = "100"

C8_Witness ==
  /\ last.op = "get_parameter"
  /\ ~last.args[2]
  /\ ~Raised(last)
  /\ last.calls[1].fn = "PI_qSEP"

\* what the getter paired with a setter can return in the current state
GetterOutcomes(setter, h, axis) ==
  CASE setter = "set_reference_mode" -> GetReferenceModeOutcomes(h, axis)
    [] setter = "set_servo_state" -> GetServoStateOutcomes(h, axis)
    [] setter = "set_velocity" ->
         GetRegisterOutcomes("get_velocity", "PI_qVEL", "VEL", h, axis)
    [] setter = "set_acceleration" ->
         GetRegisterOutcomes("get_acceleration", "PI_qACC", "ACC", h, axis)
    [] setter = "set_current_position" ->
         GetRegisterOutcomes("get_current_position", "PI_qPOS", "POS", h, axis)
RoundTripSetters ==
  {"set_reference_mode", "set_servo_state", "set_velocity", "set_acceleration",
   "set_current_position"}
\* the value a getter outcome carries, as the native integer
ReturnedValue(o) ==
  IF o.op = "get_reference_mode" THEN {ReferenceModeValue(o.res.name)} ELSE o.res.num

\* C9 as claimed: for reference mode, servo state, velocity, acceleration
\* and position there is a getter as well as a setter, and right after a
\* successful set(v) the get on the same handle can succeed and returns v.
C9_SetThenGet ==
  (last.op \in RoundTripSetters /\ ~Raised(last)) =>
    LET outs == GetterOutcomes(last.op, last.h, last.axis) IN
    /\ \E o \in outs : ~Raised(o)
    /\ \A o \in outs : ~Raised(o) => ReturnedValue(o) = {last.args[1]}

\* C10 as claimed: no handle operation hands the native layer a controller
\* identifier that has been closed.
C10_NoCommandOnClosedId ==
  (last.op /= "" /\ last.op \notin CommunicationOps) =>
    \A i \in DOMAIN last.calls :
      last.calls[i].fn /= "PI_TranslateError" => last.calls[i].id \notin closed

====
